---- MODULE Spec2Model ----
(***************************************************************************)
(* State-machine model of the Audio2MIDI mini-app piano roll               *)
(* (src/frontend/src/App.tsx): the view state and its gesture handlers,    *)
(* the MIDI load paths (local file and /api/latest-midi) and the Tone.js   *)
(* playback scheduler.                                                     *)
(*                                                                         *)
(* Number representation (JavaScript numbers are IEEE doubles, TLA+ has    *)
(* integers only):                                                         *)
(*   zoom                    tenths          (zoom = 10 is 1.0)            *)
(*   scrollX, scrollY, touch tenths of a CSS pixel                         *)
(*   positions, wheel deltas, noteHeight, totalHeight                      *)
(*   canvasH                 device pixels   (canvas.height)               *)
(*   note time, duration,    half seconds                                  *)
(*   audio clock                                                           *)
(*   velocity                tenths                                        *)
(* A product z * f of a zoom and a factor is rounded to the nearest tenth. *)
(***************************************************************************)
EXTENDS Integers, Sequences, FiniteSets, TLC

VARIABLES
    \* view state (useState, App.tsx 118-120) and the canvas
    zoom, scrollX, scrollY, canvasH, dpr,
    \* closure variables of the touch effect (App.tsx 527-529) and the
    \* fingers currently on the canvas (the browser's e.touches)
    touches, lastTouchX, lastTouchY, lastPinchDist,
    \* loaded document (App.tsx 116-117, 125-126)
    midi, notes, duration, fileName,
    \* auto-load (App.tsx 129-130, 202-260)
    autoLoad, inflight, isAutoLoading, autoLoadError,
    \* playback (App.tsx 121-123, 132-133) and the Tone.js transport
    isPlaying, playStartTime, playOffset, suspended, timeline,
    scheduledRef, synthRef, transportOn, transportT0, clock, audioOn,
    \* history: outcome of the load that completed last, outcome of the
    \* request that was issued last with the error shown when it ended (both
    \* reset when a newer load starts), the ways startPlayback has ended early so
    \* far, and the number of requests issued (a request in flight carries
    \* its number as seq, which the program itself does not have)
    lastLoad, latestRes, playFails, issued,
    \* the pure function last evaluated, with its arguments and its result
    probe,
    \* animation frames: the requests the browser holds, each with the
    \* isPlaying of the draw that was passed to it, animFrameRef.current
    \* (App.tsx 114), and the number of renders with a new draw since the
    \* last frame ran (history, counted up to 2)
    rafPending, animFrameRef, dirty

viewVars  == <<zoom, scrollX, scrollY, canvasH, dpr>>
touchVars == <<touches, lastTouchX, lastTouchY, lastPinchDist>>
docVars   == <<midi, notes, duration, fileName>>
loadVars  == <<autoLoad, inflight, isAutoLoading, autoLoadError>>
playVars  == <<isPlaying, playStartTime, playOffset, suspended, timeline,
               scheduledRef, synthRef, transportOn, transportT0, clock, audioOn>>
histVars  == <<lastLoad, latestRes, playFails, issued>>
NoProbe   == [fn |-> "none"]
rafVars   == <<rafPending, animFrameRef, dirty>>
ProgramVars == <<viewVars, touchVars, docVars, loadVars, playVars, histVars,
                 rafVars>>
vars      == <<viewVars, touchVars, docVars, loadVars, playVars, histVars,
               probe, rafVars>>

----------------------------------------------------------------------------
(* Program constants *)

MIN_PITCH == 21
MAX_PITCH == 108
NOTE_HEIGHT_BASE == 14
\* zoom bounds of the clamps and the initial zoom, in tenths
ZOOM_MIN == 3
ZOOM_MAX == 50
ZOOM_INIT == 10
\* Math.min(n.duration, 4): four seconds, in half seconds
SUSTAIN_CAP == 8
PIANO_KEY_WIDTH == 56
PIXELS_PER_SEC_BASE == 120

(* Bounds of the model *)

\* wheel scrolling to the right stops here (tenths of a pixel)
MaxScrollX == 6160
\* requests to /api/latest-midi in flight at once, and issued in all
MaxInFlight == 2
MaxIssued == 3
\* startPlayback calls suspended in `await Tone.start()` at once
MaxSuspended == 2
\* events on the transport timeline at once
MaxTimeline == 4
\* the audio clock stops here (half seconds)
MaxClock == 3
MaxOffset == 6

Max(a, b) == IF a >= b THEN a ELSE b
Min(a, b) == IF a <= b THEN a ELSE b

\* Wheel deltas and finger positions the environment produces (tenths of a
\* pixel): multiples of 61.6 px, half the height of a key row at zoom 1 times
\* the 88 rows over ten, so that scroll positions stay on one grid.  The
\* three finger positions lie on a diagonal.
WheelDeltas == {-6160, 0, 6160}
TouchPts == {<<0, 0>>, <<6160, 6160>>, <<12320, 12320>>}
\* container heights (CSS pixels) and device pixel ratios
RectHeights == {616}
Dprs == {1, 2}

----------------------------------------------------------------------------
(* Pure helpers *)

\* z * num / den in tenths, rounded to nearest
ScaleZoom(z, num, den) == (2 * z * num + den) \div (2 * den)

\* a zoom clamp that lost its upper bound
ClampZoom_NoUpper(z) == Max(ZOOM_MIN, z)
\* Math.max(0.3, Math.min(5, z))
ClampZoom(z) == Max(ZOOM_MIN, Min(ZOOM_MAX, z))

NoteHeight(z) == NOTE_HEIGHT_BASE * z
PitchRange == MAX_PITCH - MIN_PITCH + 1
TotalHeight(z) == PitchRange * NoteHeight(z)

\* canvas.height / (window.devicePixelRatio || 1), in tenths of a pixel
LogicalHeight == (10 * canvasH) \div dpr

\* maxSy of handleWheel and onTouchMove at zoom z
MaxSy(z) == Max(0, TotalHeight(z) - LogicalHeight)

\* a horizontal scroll that is not clamped at 0
ClampScrollX_None(x) == x
\* Math.max(0, x) of setScrollX
ClampScrollX(x) == Max(0, x)
\* Math.max(0, Math.min(maxSy, y)) of setScrollY
ClampScrollY(y) == Max(0, Min(MaxSy(zoom), y))

RECURSIVE SqrtBetween(_, _, _)
SqrtBetween(n, lo, hi) ==
    IF hi - lo <= 1 THEN lo
    ELSE LET mid == (lo + hi) \div 2
         IN  IF mid * mid <= n THEN SqrtBetween(n, mid, hi)
             ELSE SqrtBetween(n, lo, mid)
\* Math.sqrt, to the tenth of a pixel below (bisection; 46340 is the largest
\* root whose square a 32-bit integer holds)
ISqrt(n) == SqrtBetween(n, 0, Min(n + 1, 46340))

\* getTouchDistance(t1, t2)
GetTouchDistance(t1, t2) ==
    LET dx == t1[1] - t2[1]
        dy == t1[2] - t2[2]
    IN  ISqrt(dx * dx + dy * dy)

----------------------------------------------------------------------------
(* Documents the environment can supply.  A buffer is the name of a         *)
(* document that parses, or "bad" for bytes `new Midi(buffer)` rejects.     *)

Note(p, t, d, v) == [pitch |-> p, time |-> t, duration |-> d, velocity |-> v]

\* the two-note document of the end-to-end scenario, a single long low note,
\* a file with no notes, a file with two low notes and one high note, and a
\* file whose first note has its note-off on the tick of its note-on
DocNotes(buf) ==
    CASE buf = "a.mid" -> <<Note(60, 0, 2, 5), Note(68, 1, 2, 9)>>
      [] buf = "b.mid" -> <<Note(20, 0, 10, 10)>>
      [] buf = "c.mid" -> <<Note(60, 0, 2, 5), Note(62, 2, 2, 5),
                            Note(100, 4, 2, 5)>>
      [] buf = "z.mid" -> <<Note(60, 0, 0, 5), Note(64, 1, 2, 8)>>
      [] OTHER         -> <<>>

GoodBuffers == {"a.mid", "b.mid", "e.mid", "c.mid", "z.mid"}
\* the buffers of the interleaving specifications, and all of them
Buffers == {"a.mid", "b.mid", "e.mid", "bad"}
AllBuffers == GoodBuffers \cup {"bad"}

RECURSIVE SeqMax(_, _, _), SeqMinPitch(_, _, _), SeqMaxPitch(_, _, _)
\* allNotes.reduce((m, n) => Math.max(m, n.time + n.duration), 0)
SeqMax(s, i, m) ==
    IF i > Len(s) THEN m
    ELSE SeqMax(s, i + 1, Max(m, s[i].time + s[i].duration))
\* allNotes.reduce((m, n) => Math.min(m, n.pitch), 127)
SeqMinPitch(s, i, m) ==
    IF i > Len(s) THEN m ELSE SeqMinPitch(s, i + 1, Min(m, s[i].pitch))
\* allNotes.reduce((m, n) => Math.max(m, n.pitch), 0)
SeqMaxPitch(s, i, m) ==
    IF i > Len(s) THEN m ELSE SeqMaxPitch(s, i + 1, Max(m, s[i].pitch))

\* (MAX_PITCH - centerPitch) * noteHeight - canvas.height / 2 with
\* centerPitch = (minP + maxP) / 2, in tenths of a pixel: exact, because
\* noteHeight is a multiple of 14; canvas.height is in device pixels
YCenter(ns, nh) ==
    LET minP == SeqMinPitch(ns, 1, 127)
        maxP == SeqMaxPitch(ns, 1, 0)
    IN  ((2 * MAX_PITCH - (minP + maxP)) * nh) \div 2 - (10 * canvasH) \div 2

----------------------------------------------------------------------------
(* Initial state: the component after mount.  resize() has run once        *)
(* (App.tsx 486); the auto-load effect has issued its first request when   *)
(* midiParam or userId is set (App.tsx 204, 259).                          *)

NoRes == [kind |-> "none", name |-> "", err |-> "null"]

\* the component's own state after mount
InitProgram ==
    /\ zoom = ZOOM_INIT /\ scrollX = 0 /\ scrollY = 0
    /\ dpr \in Dprs
    /\ \E h \in RectHeights : canvasH = h * dpr
    /\ touches = <<>> /\ lastTouchX = 0 /\ lastTouchY = 0 /\ lastPinchDist = 0
    /\ midi = "null" /\ notes = <<>> /\ duration = 0 /\ fileName = ""
    /\ autoLoad \in BOOLEAN
    /\ inflight = IF autoLoad
                 THEN <<[nh |-> NoteHeight(ZOOM_INIT), seq |-> 1]>>
                 ELSE <<>>
    /\ isAutoLoading = autoLoad
    /\ autoLoadError = "null"
    /\ isPlaying = FALSE /\ playStartTime = 0 /\ playOffset = 0
    /\ suspended = <<>> /\ timeline = <<>> /\ scheduledRef = <<>>
    /\ synthRef = FALSE /\ transportOn = FALSE /\ transportT0 = 0
    /\ clock = 0 /\ audioOn = FALSE
    /\ lastLoad = "none" /\ latestRes = NoRes /\ playFails = {}
    /\ issued = IF autoLoad THEN 1 ELSE 0
    /\ rafPending = {[id |-> 1, playing |-> FALSE]}
    /\ animFrameRef = 1 /\ dirty = 0

Init == InitProgram /\ probe = NoProbe

----------------------------------------------------------------------------
(* The redraw effect (App.tsx 491-496)                                     *)

\* requestAnimationFrame returns an id no pending request has
FreshId(pending) ==
    CHOOSE i \in 1..(Cardinality(pending) + 1) : \A r \in pending : r.id # i
\* cancelAnimationFrame(id)
CancelFrame(pending, id) == {r \in pending : r.id # id}

\* a redraw effect that requests a frame without cancelling the pending one
RequestRedraw_NoCancel ==
    /\ rafPending' = rafPending \cup
                       {[id |-> FreshId(rafPending), playing |-> isPlaying']}
    /\ animFrameRef' = FreshId(rafPending)
    /\ dirty' = Min(2, dirty + 1)
\* the effect of a render whose draw is new: the cleanup of the previous
\* effect and the effect itself cancel animFrameRef.current, then draw is
\* requested for the next frame
RequestRedraw ==
    LET kept == CancelFrame(rafPending, animFrameRef)
    IN  /\ rafPending' = kept \cup {[id |-> FreshId(kept), playing |-> isPlaying']}
        /\ animFrameRef' = FreshId(kept)
        /\ dirty' = Min(2, dirty + 1)

\* the state draw depends on (App.tsx 466); noteHeight and pixelsPerSec
\* follow zoom, and midi and notes are new objects after every load that
\* parsed
DrawDeps == <<notes, midi, zoom, scrollX, scrollY, isPlaying, playStartTime>>
\* the render that follows a handler: the effect runs when draw is new
RedrawEffect ==
    IF DrawDeps' # DrawDeps THEN RequestRedraw ELSE UNCHANGED rafVars

----------------------------------------------------------------------------
(* Effects that re-run when zoom changes                                   *)

\* The auto-load effect has loadMidi among its dependencies and loadMidi
\* has noteHeight among its own (App.tsx 184, 260): a render with a new zoom
\* runs loadFromApi again, up to `await fetch` (App.tsx 207-224).  The
\* request keeps the loadMidi of that render, i.e. its noteHeight.
AutoLoadEffect(z) ==
    IF autoLoad /\ z # zoom
    THEN /\ Len(inflight) < MaxInFlight
         /\ issued < MaxIssued
         /\ inflight' = Append(inflight,
                              [nh |-> NoteHeight(z), seq |-> issued + 1])
         /\ isAutoLoading' = TRUE
         /\ autoLoadError' = "null"
         /\ latestRes' = NoRes
         /\ lastLoad' = "none"
         /\ issued' = issued + 1
         /\ UNCHANGED autoLoad
    ELSE UNCHANGED <<loadVars, latestRes, lastLoad, issued>>

\* setZoom(z) and the render that follows it
SetZoom(z) ==
    /\ zoom' = z
    /\ AutoLoadEffect(z)

\* The touch effect depends on totalHeight (App.tsx 585): a render with a
\* new zoom installs handlers whose closure variables start at 0 again
\* (App.tsx 527-529).
TouchLocalsAfter(z, x, y, d) ==
    IF z # zoom
    THEN lastTouchX' = 0 /\ lastTouchY' = 0 /\ lastPinchDist' = 0
    ELSE lastTouchX' = x /\ lastTouchY' = y /\ lastPinchDist' = d

----------------------------------------------------------------------------
(* Gestures (App.tsx 498-585) and the toolbar zoom buttons (653-654)       *)

\* handleWheel with ctrlKey or metaKey
WheelZoom(deltaY) ==
    LET z == ClampZoom(IF deltaY > 0 THEN ScaleZoom(zoom, 9, 10)
                                     ELSE ScaleZoom(zoom, 11, 10))
    IN  /\ SetZoom(z)
        /\ TouchLocalsAfter(z, lastTouchX, lastTouchY, lastPinchDist)
        /\ UNCHANGED <<probe, scrollX, scrollY, canvasH, dpr, touches, docVars,
                       playVars, playFails>>
        /\ RedrawEffect

\* handleWheel without ctrlKey and metaKey
WheelScroll(deltaX, deltaY, shiftKey) ==
    LET sx == ClampScrollX(scrollX + deltaX + (IF shiftKey THEN deltaY ELSE 0))
        sy == ClampScrollY(scrollY + (IF shiftKey THEN 0 ELSE deltaY))
    IN  /\ sx <= MaxScrollX
        /\ scrollX' = sx
        /\ scrollY' = sy
        /\ UNCHANGED <<probe, zoom, canvasH, dpr, touchVars, docVars, loadVars,
                       playVars, histVars>>
        /\ RedrawEffect

\* onTouchStart: a finger comes down at p; e.touches holds every finger
OnTouchStart(p) ==
    /\ Len(touches) < 2
    /\ \A i \in 1..Len(touches) : touches[i] # p
    /\ touches' = Append(touches, p)
    /\ IF Len(touches') = 1
       THEN /\ lastTouchX' = touches'[1][1]
            /\ lastTouchY' = touches'[1][2]
            /\ UNCHANGED lastPinchDist
       ELSE /\ lastPinchDist' = GetTouchDistance(touches'[1], touches'[2])
            /\ UNCHANGED <<lastTouchX, lastTouchY>>
    /\ UNCHANGED <<probe, viewVars, docVars, loadVars, playVars, histVars>>
    /\ RedrawEffect

\* onTouchMove with one finger down, the delta added instead of subtracted
TouchPan_Inverted(p) ==
    LET dx == p[1] - lastTouchX
        dy == p[2] - lastTouchY
        sx == ClampScrollX(scrollX + dx)
        sy == ClampScrollY(scrollY + dy)
    IN  /\ Len(touches) = 1
        /\ touches[1] # p
        /\ sx <= MaxScrollX
        /\ touches' = <<p>>
        /\ lastTouchX' = p[1]
        /\ lastTouchY' = p[2]
        /\ scrollX' = sx
        /\ scrollY' = sy
        /\ UNCHANGED <<probe, zoom, canvasH, dpr, lastPinchDist, docVars, loadVars,
                       playVars, histVars>>
        /\ RedrawEffect

\* onTouchMove with one finger down: pan
TouchPan(p) ==
    LET dx == lastTouchX - p[1]
        dy == lastTouchY - p[2]
        sx == ClampScrollX(scrollX + dx)
        sy == ClampScrollY(scrollY + dy)
    IN  /\ Len(touches) = 1
        /\ touches[1] # p
        /\ sx <= MaxScrollX
        /\ touches' = <<p>>
        /\ lastTouchX' = p[1]
        /\ lastTouchY' = p[2]
        /\ scrollX' = sx
        /\ scrollY' = sy
        /\ UNCHANGED <<probe, zoom, canvasH, dpr, lastPinchDist, docVars, loadVars,
                       playVars, histVars>>
        /\ RedrawEffect

\* onTouchMove with two fingers down, the one-finger branch taken as well
TouchPinch_Pans(i, p) ==
    LET ts   == [touches EXCEPT ![i] = p]
        dist == GetTouchDistance(ts[1], ts[2])
        z    == IF lastPinchDist > 0
                THEN ClampZoom(ScaleZoom(zoom, dist, lastPinchDist))
                ELSE zoom
        sx   == ClampScrollX(scrollX + (lastTouchX - ts[1][1]))
    IN  /\ Len(touches) = 2
        /\ i \in 1..2
        /\ p # touches[1] /\ p # touches[2]
        /\ sx <= MaxScrollX
        /\ touches' = ts
        /\ SetZoom(z)
        /\ TouchLocalsAfter(z, ts[1][1], ts[1][2], dist)
        /\ scrollX' = sx
        /\ scrollY' = ClampScrollY(scrollY + (lastTouchY - ts[1][2]))
        /\ UNCHANGED <<probe, canvasH, dpr, docVars, playVars, playFails>>
        /\ RedrawEffect

\* onTouchMove with two fingers down: finger i moves to p, pinch-to-zoom
TouchPinch(i, p) ==
    LET ts   == [touches EXCEPT ![i] = p]
        dist == GetTouchDistance(ts[1], ts[2])
        z    == IF lastPinchDist > 0
                THEN ClampZoom(ScaleZoom(zoom, dist, lastPinchDist))
                ELSE zoom
    IN  /\ Len(touches) = 2
        /\ i \in 1..2
        /\ p # touches[1] /\ p # touches[2]
        /\ touches' = ts
        /\ SetZoom(z)
        /\ TouchLocalsAfter(z, lastTouchX, lastTouchY, dist)
        /\ UNCHANGED <<probe, scrollX, scrollY, canvasH, dpr, docVars, playVars,
                       playFails>>
        /\ RedrawEffect

\* onTouchEnd: finger i is lifted
OnTouchEnd(i) ==
    /\ i \in 1..Len(touches)
    /\ touches' = IF i = 1 THEN Tail(touches) ELSE <<touches[1]>>
    /\ lastPinchDist' = 0
    /\ UNCHANGED <<probe, lastTouchX, lastTouchY, viewVars, docVars, loadVars,
                   playVars, histVars>>
    /\ RedrawEffect

\* toolbar: setZoom(z => Math.min(5, z * 1.25))
ZoomInClick ==
    LET z == Min(ZOOM_MAX, ScaleZoom(zoom, 125, 100))
    IN  /\ SetZoom(z)
        /\ TouchLocalsAfter(z, lastTouchX, lastTouchY, lastPinchDist)
        /\ UNCHANGED <<probe, scrollX, scrollY, canvasH, dpr, touches, docVars,
                       playVars, playFails>>
        /\ RedrawEffect

\* toolbar: setZoom(z => Math.max(0.3, z * 0.8))
ZoomOutClick ==
    LET z == Max(ZOOM_MIN, ScaleZoom(zoom, 80, 100))
    IN  /\ SetZoom(z)
        /\ TouchLocalsAfter(z, lastTouchX, lastTouchY, lastPinchDist)
        /\ UNCHANGED <<probe, scrollX, scrollY, canvasH, dpr, touches, docVars,
                       playVars, playFails>>
        /\ RedrawEffect

\* resize (App.tsx 474-484): the container is h CSS pixels high and the
\* window reports device pixel ratio d
Resize(h, d) ==
    /\ canvasH' = h * d
    /\ dpr' = d
    /\ UNCHANGED <<probe, zoom, scrollX, scrollY, touchVars, docVars, loadVars,
                   playVars, histVars>>
    /\ RedrawEffect

----------------------------------------------------------------------------
(* Playback (App.tsx 262-310) on the Tone.js transport                     *)

\* Transport.seconds: 0 while stopped, else the time since Transport.start()
TransportPos == IF transportOn THEN clock - transportT0 ELSE 0

\* a trigger scheduled at once, whatever the start time of its note
Trigger_NoDelay(n, off) ==
    [pitch |-> n.pitch,
     at    |-> TransportPos,
     len   |-> Min(n.duration, SUSTAIN_CAP),
     amp   |-> n.velocity * 8]

\* the trigger startPlayback schedules for note n of a closure whose seek
\* offset is off: scheduleOnce(..., `+${delay}`) with
\* delay = Math.max(0, n.time - playOffset), triggerAttackRelease with
\* Math.min(n.duration, 4) and n.velocity * 0.8 (velocity in hundredths)
Trigger(n, off) ==
    [pitch |-> n.pitch,
     at    |-> TransportPos + Max(0, n.time - off),
     len   |-> Min(n.duration, SUSTAIN_CAP),
     amp   |-> n.velocity * 8]

RECURSIVE Triggers_Strict(_, _, _)
\* a scheduling loop that also skips the notes ending exactly at the offset
Triggers_Strict(ns, i, off) ==
    IF i > Len(ns) THEN <<>>
    ELSE (IF ns[i].time + ns[i].duration <= off THEN <<>>
          ELSE <<Trigger(ns[i], off)>>) \o Triggers_Strict(ns, i + 1, off)

RECURSIVE Triggers(_, _, _)
\* notes.forEach(n => { if (n.time + n.duration < playOffset) return; ... })
Triggers(ns, i, off) ==
    IF i > Len(ns) THEN <<>>
    ELSE (IF ns[i].time + ns[i].duration < off THEN <<>>
          ELSE <<Trigger(ns[i], off)>>) \o Triggers(ns, i + 1, off)

\* a stopPlayback that stops the transport and forgets Transport.cancel()
StopPlayback_NoCancel ==
    /\ isPlaying' = FALSE
    /\ transportOn' = FALSE
    /\ scheduledRef' = <<>>
    /\ playOffset' = 0
    /\ UNCHANGED <<playStartTime, suspended, synthRef, transportT0, clock,
                   audioOn, timeline>>
\* stopPlayback (App.tsx 301-310): Transport.stop() and Transport.cancel()
\* empty the timeline; calls suspended in startPlayback are not touched
StopPlayback ==
    /\ isPlaying' = FALSE
    /\ transportOn' = FALSE
    /\ timeline' = <<>>
    /\ scheduledRef' = <<>>
    /\ playOffset' = 0
    /\ UNCHANGED <<playStartTime, suspended, synthRef, transportT0, clock,
                   audioOn>>

\* a startPlayback without its first line
StartPlayback_NoGuard ==
    /\ Len(suspended) < MaxSuspended
    /\ suspended' = Append(suspended, [notes |-> notes, offset |-> playOffset])
    /\ playFails' = IF Len(notes) = 0 THEN playFails \cup {"empty"}
                    ELSE playFails
    /\ UNCHANGED <<isPlaying, playStartTime, playOffset, timeline,
                   scheduledRef, synthRef, transportOn, transportT0, clock,
                   audioOn>>
\* startPlayback up to `await Tone.start()` (App.tsx 263-266): it returns at
\* once when there are no notes, and else suspends with the notes and
\* playOffset of the render that made it (App.tsx 299)
StartPlayback ==
    /\ IF Len(notes) = 0
       THEN /\ playFails' = playFails \cup {"empty"}
            /\ UNCHANGED suspended
       ELSE /\ Len(suspended) < MaxSuspended
            /\ suspended' = Append(suspended,
                                   [notes |-> notes, offset |-> playOffset])
            /\ UNCHANGED playFails
    /\ UNCHANGED <<isPlaying, playStartTime, playOffset, timeline,
                   scheduledRef, synthRef, transportOn, transportT0, clock,
                   audioOn>>

\* the play/stop button while it shows Play and is enabled (App.tsx 644-645)
PlayClick ==
    /\ ~isPlaying
    /\ Len(notes) > 0
    /\ StartPlayback
    /\ UNCHANGED <<probe, viewVars, touchVars, docVars, loadVars, lastLoad,
                   latestRes, issued>>
    /\ RedrawEffect

\* startPlayback of the current render called directly, whatever the button
\* shows
StartPlaybackCall ==
    /\ StartPlayback
    /\ UNCHANGED <<probe, viewVars, touchVars, docVars, loadVars, lastLoad,
                   latestRes, issued>>
    /\ RedrawEffect

\* Tone.start() resolves for the oldest suspended call, which runs to its
\* end (App.tsx 268-298)
ToneStartResolves ==
    /\ suspended # <<>>
    /\ LET p   == Head(suspended)
           ids == Triggers(p.notes, 1, p.offset)
       IN  /\ Len(timeline) + Len(ids) <= MaxTimeline
           /\ timeline' = timeline \o ids
           /\ scheduledRef' = ids
           /\ playStartTime' = clock - p.offset
    /\ suspended' = Tail(suspended)
    /\ synthRef' = TRUE
    /\ isPlaying' = TRUE
    /\ transportOn' = TRUE
    /\ transportT0' = IF transportOn THEN transportT0 ELSE clock
    /\ audioOn' = TRUE
    /\ UNCHANGED <<playOffset, clock>>
    /\ UNCHANGED <<probe, viewVars, touchVars, docVars, loadVars, histVars>>
    /\ RedrawEffect

\* a startPlayback that marks playback as running before it awaits
\* Tone.start(), seen when the start is rejected
ToneStartRejects_Dirty ==
    /\ suspended # <<>>
    /\ suspended' = Tail(suspended)
    /\ playFails' = playFails \cup {"reject"}
    /\ isPlaying' = TRUE
    /\ playStartTime' = clock - Head(suspended).offset
    /\ UNCHANGED <<playOffset, timeline, scheduledRef, synthRef, transportOn,
                   transportT0, clock, audioOn>>
    /\ UNCHANGED <<probe, viewVars, touchVars, docVars, loadVars, lastLoad, latestRes,
                   issued>>
    /\ RedrawEffect
\* Tone.start() rejects for the oldest suspended call (the audio backend is
\* unavailable or locked): the call ends at line 266 with an exception
ToneStartRejects ==
    /\ suspended # <<>>
    /\ suspended' = Tail(suspended)
    /\ playFails' = playFails \cup {"reject"}
    /\ UNCHANGED <<isPlaying, playStartTime, playOffset, timeline,
                   scheduledRef, synthRef, transportOn, transportT0, clock,
                   audioOn>>
    /\ UNCHANGED <<probe, viewVars, touchVars, docVars, loadVars, lastLoad, latestRes,
                   issued>>
    /\ RedrawEffect

\* Tone.start() resolves and scheduleOnce throws at the (k+1)-th trigger:
\* nothing in startPlayback catches it (App.tsx 263-299), so the k triggers
\* scheduled before stay on the timeline and lines 295-298 do not run
SetupThrows(k) ==
    /\ suspended # <<>>
    /\ LET p   == Head(suspended)
           ids == Triggers(p.notes, 1, p.offset)
       IN  /\ k < Len(ids)
           /\ Len(timeline) + k <= MaxTimeline
           /\ timeline' = timeline \o SubSeq(ids, 1, k)
    /\ suspended' = Tail(suspended)
    /\ synthRef' = TRUE
    /\ audioOn' = TRUE
    /\ playFails' = playFails \cup {"throw"}
    /\ UNCHANGED <<isPlaying, playStartTime, playOffset, scheduledRef,
                   transportOn, transportT0, clock>>
    /\ UNCHANGED <<probe, viewVars, touchVars, docVars, loadVars, lastLoad, latestRes,
                   issued>>
    /\ RedrawEffect

\* the play/stop button while it shows Stop and is enabled (App.tsx 644-645)
StopClick ==
    /\ isPlaying
    /\ Len(notes) > 0
    /\ StopPlayback
    /\ UNCHANGED <<probe, viewVars, touchVars, docVars, loadVars, histVars>>
    /\ RedrawEffect

\* the triggers that are due, and the one the transport fires next
Due == {i \in 1..Len(timeline) : timeline[i].at <= TransportPos}
RemoveAt(s, i) == SubSeq(s, 1, i - 1) \o SubSeq(s, i + 1, Len(s))

\* a transport whose last trigger also ends playback
Fire_StopsAtEnd ==
    /\ transportOn
    /\ Due # {}
    /\ LET i == CHOOSE j \in Due : \A m \in Due : j <= m
       IN  /\ timeline' = RemoveAt(timeline, i)
           /\ isPlaying' = (isPlaying /\ Len(timeline) > 1)
    /\ UNCHANGED <<playStartTime, playOffset, suspended,
                   scheduledRef, synthRef, transportOn, transportT0, clock,
                   audioOn>>
    /\ UNCHANGED <<probe, viewVars, touchVars, docVars, loadVars, histVars>>
    /\ RedrawEffect

\* the transport fires a due trigger (scheduleOnce removes it)
Fire ==
    /\ transportOn
    /\ Due # {}
    /\ LET i == CHOOSE j \in Due : \A m \in Due : j <= m
       IN  timeline' = RemoveAt(timeline, i)
    /\ UNCHANGED <<isPlaying, playStartTime, playOffset, suspended,
                   scheduledRef, synthRef, transportOn, transportT0, clock,
                   audioOn>>
    /\ UNCHANGED <<probe, viewVars, touchVars, docVars, loadVars, histVars>>
    /\ RedrawEffect

\* the audio clock advances once every due trigger has fired
Tick ==
    /\ audioOn
    /\ clock < MaxClock
    /\ ~(transportOn /\ Due # {})
    /\ clock' = clock + 1
    /\ UNCHANGED <<isPlaying, playStartTime, playOffset, suspended, timeline,
                   scheduledRef, synthRef, transportOn, transportT0, audioOn>>
    /\ UNCHANGED <<probe, viewVars, touchVars, docVars, loadVars, histVars>>
    /\ RedrawEffect

----------------------------------------------------------------------------
(* Loading (App.tsx 142-260)                                               *)

\* a loadMidi that clears the document and the scroll position before it
\* parses
LoadMidi_ClearFirst(buf, nh) ==
    IF buf \in GoodBuffers
    THEN /\ midi' = buf
         /\ fileName' = buf
         /\ notes' = DocNotes(buf)
         /\ duration' = SeqMax(DocNotes(buf), 1, 0)
         /\ scrollX' = 0
         /\ scrollY' = IF Len(DocNotes(buf)) > 0
                       THEN Max(0, YCenter(DocNotes(buf), nh))
                       ELSE scrollY
         /\ StopPlayback
    ELSE /\ midi' = "null" /\ fileName' = "" /\ notes' = <<>>
         /\ duration' = 0
         /\ scrollX' = 0 /\ scrollY' = 0
         /\ UNCHANGED playVars
\* loadMidi(buffer, name) of a render whose noteHeight was nh
LoadMidi(buf, nh) ==
    IF buf \in GoodBuffers
    THEN /\ midi' = buf
         /\ fileName' = buf
         /\ notes' = DocNotes(buf)
         /\ duration' = SeqMax(DocNotes(buf), 1, 0)
         /\ scrollX' = 0
         /\ scrollY' = IF Len(DocNotes(buf)) > 0
                       THEN Max(0, YCenter(DocNotes(buf), nh))
                       ELSE scrollY
         /\ StopPlayback
    ELSE \* new Midi(buffer) throws: console.error and alert (181-182)
         UNCHANGED <<midi, fileName, notes, duration, scrollX, scrollY,
                     playVars>>

\* handleFile and reader.onload (App.tsx 187-199): a .mid file is picked or
\* dropped and read; the read ends before the next event
LoadFile(buf) ==
    /\ LoadMidi(buf, NoteHeight(zoom))
    /\ lastLoad' = IF buf \in GoodBuffers THEN "file_ok" ELSE "file_parse"
    /\ latestRes' = NoRes
    /\ UNCHANGED <<probe, zoom, canvasH, dpr, touchVars, loadVars, playFails, issued>>
    /\ IF buf \in GoodBuffers THEN RequestRedraw ELSE RedrawEffect

\* what a request to /api/latest-midi can end with
ErrorReason(out) ==
    CASE out = "http"   -> "HTTP 500"
      [] out = "nodata" -> "No MIDI data received"
      [] out = "net"    -> "Failed to fetch"
      [] OTHER          -> "null"
Outcomes == {"ok", "404", "http", "nodata", "net"}

\* a loadFromApi without the 404 branch
IsNotFound_Never(out) == FALSE
\* if (response.status === 404) { console.log(...); return } (App.tsx 226-230)
IsNotFound(out) == out = "404"

\* a loadFromApi whose 404 branch returns without reaching the finally block
FinallyLoading_EarlyReturn(out) == IF out = "404" THEN isAutoLoading ELSE FALSE
\* finally { setIsAutoLoading(false) } (App.tsx 254-256): runs after the
\* return of the 404 branch, after the catch block and after loadMidi
FinallyLoading(out) == FALSE

\* request i of loadFromApi resumes after `await fetch` and runs to its end
\* (App.tsx 226-256); buf is the body an "ok" response carries
RequestResolves(i, out, buf) ==
    /\ i \in 1..Len(inflight)
    /\ inflight' = RemoveAt(inflight, i)
    /\ IF out = "ok"
       THEN /\ LoadMidi(buf, inflight[i].nh)
            /\ UNCHANGED autoLoadError
       ELSE /\ UNCHANGED <<midi, fileName, notes, duration, scrollX, scrollY,
                           playVars>>
            /\ autoLoadError' = IF IsNotFound(out) THEN autoLoadError
                                ELSE IF out = "404" THEN "HTTP 404"
                                ELSE ErrorReason(out)
    /\ isAutoLoading' = FinallyLoading(out)
    /\ lastLoad' = IF out = "ok"
                   THEN (IF buf \in GoodBuffers THEN "api_ok" ELSE "api_parse")
                   ELSE out
    /\ latestRes' = IF inflight[i].seq = issued
                    THEN [kind |-> lastLoad',
                          name |-> IF out = "ok" THEN buf ELSE "",
                          err  |-> autoLoadError']
                    ELSE latestRes
    /\ UNCHANGED <<probe, zoom, canvasH, dpr, touchVars, autoLoad, playFails, issued>>
    /\ IF out = "ok" /\ buf \in GoodBuffers THEN RequestRedraw ELSE RedrawEffect

----------------------------------------------------------------------------
(* Specifications *)

\* every gesture, the toolbar zoom buttons and resize
GestureNext ==
    \/ \E dy \in WheelDeltas \ {0} : WheelZoom(dy)
    \/ \E dx, dy \in WheelDeltas, sh \in BOOLEAN : WheelScroll(dx, dy, sh)
    \/ \E p \in TouchPts : OnTouchStart(p)
    \/ \E p \in TouchPts : TouchPan(p)
    \/ \E i \in 1..2, p \in TouchPts : TouchPinch(i, p)
    \/ \E i \in 1..2 : OnTouchEnd(i)
    \/ ZoomInClick
    \/ ZoomOutClick
    \/ \E h \in RectHeights, d \in Dprs : Resize(h, d)

\* both load paths
LoadNext ==
    \/ \E buf \in Buffers : LoadFile(buf)
    \/ \E i \in 1..MaxInFlight, out \in Outcomes, buf \in Buffers :
           RequestResolves(i, out, buf)

\* the playback scheduler and the audio clock
PlayNext ==
    \/ PlayClick
    \/ ToneStartResolves
    \/ ToneStartRejects
    \/ \E k \in 0..MaxTimeline : SetupThrows(k)
    \/ StopClick
    \/ Fire
    \/ Tick

\* The whole component
Next == GestureNext \/ LoadNext \/ PlayNext
Spec == Init /\ [][Next]_vars

\* The view under every gesture, with no midiParam and no userId
InitView == Init /\ ~autoLoad
SpecView == InitView /\ [][GestureNext]_vars

\* Loading, with wheel scrolling and the toolbar zoom buttons
NextLoad ==
    \/ LoadNext
    \/ \E dx, dy \in WheelDeltas, sh \in BOOLEAN : WheelScroll(dx, dy, sh)
    \/ ZoomInClick
    \/ ZoomOutClick
SpecLoad == Init /\ [][NextLoad]_vars

\* Everything that writes the scroll position at a fixed zoom: wheel
\* scrolling, one-finger panning and both load paths
NextScroll ==
    \/ LoadNext
    \/ \E dx, dy \in WheelDeltas, sh \in BOOLEAN : WheelScroll(dx, dy, sh)
    \/ \E p \in TouchPts : OnTouchStart(p)
    \/ \E p \in TouchPts : TouchPan(p)
    \/ \E i \in 1..2 : OnTouchEnd(i)
SpecScroll == Init /\ [][NextScroll]_vars

\* Loading with the toolbar zoom-in button, where every request that was
\* issued is answered: its fetch resolves or rejects
NextLoadLive ==
    \/ LoadNext
    \/ ZoomInClick
SpecLoadLive ==
    /\ Init
    /\ [][NextLoadLive]_vars
    /\ WF_vars(\E i \in 1..MaxInFlight, out \in Outcomes, buf \in Buffers :
                   RequestResolves(i, out, buf))

\* a two-finger gesture observed from its start: the zoom and the distance
\* of the fingers when the second finger came down (App.tsx 541-543)
ObservePinch ==
    /\ probe = NoProbe
    /\ Len(touches) = 2
    /\ lastPinchDist > 0
    /\ lastPinchDist = GetTouchDistance(touches[1], touches[2])
    /\ probe' = [fn |-> "pinch", z0 |-> zoom, d0 |-> lastPinchDist]
    /\ UNCHANGED ProgramVars
\* a move of the observed gesture that stays clear of both zoom bounds, for
\* the zoom the handler computes and for z0 scaled by the whole gesture
PinchMove(i, p) ==
    /\ probe.fn = "pinch"
    /\ Len(touches) = 2
    /\ LET ts   == [touches EXCEPT ![i] = p]
           dist == GetTouchDistance(ts[1], ts[2])
           all  == ScaleZoom(probe.z0, dist, probe.d0)
           step == IF lastPinchDist > 0
                   THEN ScaleZoom(zoom, dist, lastPinchDist) ELSE zoom
       IN  /\ ZOOM_MIN < all /\ all < ZOOM_MAX
           /\ ZOOM_MIN < step /\ step < ZOOM_MAX
    /\ TouchPinch(i, p)
\* Two-finger gestures that start at the zoom levels of the zoom-out button
NextPinch ==
    \/ (probe = NoProbe /\ ZoomOutClick)
    \/ (probe = NoProbe /\ \E p \in TouchPts : OnTouchStart(p))
    \/ ObservePinch
    \/ \E i \in 1..2, p \in TouchPts : PinchMove(i, p)
SpecPinch == InitView /\ [][NextPinch]_vars

\* Touch input at a fixed zoom, with local files
NextPan ==
    \/ \E buf \in Buffers : LoadFile(buf)
    \/ \E p \in TouchPts : OnTouchStart(p)
    \/ \E p \in TouchPts : TouchPan(p)
    \/ \E i \in 1..2 : OnTouchEnd(i)
SpecPan == InitView /\ [][NextPan]_vars

\* Playback, with both load paths
NextPlay == PlayNext \/ LoadNext
SpecPlay == Init /\ [][NextPlay]_vars

\* a playhead driven by a counter that grows by one per rendered frame
ElapsedAt_FrameCounter(now, t0) ==
    IF probe.fn = "elapsed" THEN probe.out + 1 ELSE 0
\* const elapsed = Tone.now() - playStartTime (App.tsx 442)
ElapsedAt(now, t0) == now - t0

\* draw() while isPlaying (App.tsx 441-443): a frame computes the elapsed
\* time of the playhead from the audio clock and the playStartTime of its
\* render
DrawPlayhead ==
    /\ isPlaying
    /\ probe' = [fn |-> "elapsed", now |-> clock, t0 |-> playStartTime,
                 out |-> ElapsedAt(clock, playStartTime)]
    /\ UNCHANGED ProgramVars

\* playback of a loaded file with the frames that draw the playhead; the
\* audio clock moves any number of steps between two frames
NextElapsed ==
    \/ DrawPlayhead
    \/ \E buf \in Buffers : LoadFile(buf)
    \/ PlayClick
    \/ ToneStartResolves
    \/ StopClick
    \/ Fire
    \/ Tick
SpecElapsed == InitView /\ [][NextElapsed]_vars

\* every document loaded from a file at every zoom level and viewport
NextDocs ==
    \/ \E buf \in AllBuffers : LoadFile(buf)
    \/ ZoomInClick
    \/ ZoomOutClick
    \/ \E h \in RectHeights, d \in Dprs : Resize(h, d)
SpecDocs == InitView /\ [][NextDocs]_vars

\* a draw that never requests the next frame
DrawFrame_NoLoop ==
    /\ \E r \in rafPending : rafPending' = rafPending \ {r}
    /\ dirty' = 0
    /\ UNCHANGED <<animFrameRef, probe, viewVars, touchVars, docVars, loadVars,
                   playVars, histVars>>
\* the browser runs a pending frame request: draw paints, and when the
\* isPlaying of its render is true it requests the next frame and stores
\* the id in animFrameRef (App.tsx 463-465)
DrawFrame ==
    /\ \E r \in rafPending :
          LET rest == rafPending \ {r}
          IN  IF r.playing
              THEN /\ rafPending' = rest \cup {[id |-> FreshId(rest),
                                                playing |-> r.playing]}
                   /\ animFrameRef' = FreshId(rest)
              ELSE /\ rafPending' = rest
                   /\ UNCHANGED animFrameRef
    /\ dirty' = 0
    /\ UNCHANGED <<probe, viewVars, touchVars, docVars, loadVars, playVars,
                   histVars>>

\* frames interleaved with file loads, playback, horizontal wheel scrolling
\* and the toolbar zoom-in button
NextFrames ==
    \/ DrawFrame
    \/ \E buf \in Buffers : LoadFile(buf)
    \/ PlayClick
    \/ ToneStartResolves
    \/ StopClick
    \/ \E dx \in WheelDeltas : WheelScroll(dx, 0, FALSE)
    \/ ZoomInClick
SpecFrames == InitView /\ [][NextFrames]_vars

\* startPlayback called directly, as a caller other than the button would,
\* next to file loads and the playback scheduler
NextCall ==
    \/ StartPlaybackCall
    \/ \E buf \in Buffers : LoadFile(buf)
    \/ ToneStartResolves
    \/ StopClick
    \/ Fire
    \/ Tick
SpecCall == InitView /\ [][NextCall]_vars

----------------------------------------------------------------------------
(* Pure functions of the component, applied to arguments drawn from        *)
(* bounded sets: Init holds the arguments, the action stores the result.   *)

\* the program state in which the functions are evaluated: just mounted,
\* with no midiParam and no userId
InitQuiet == InitProgram /\ ~autoLoad

\* note lists and seek offsets for the scheduling loop of startPlayback
\* (times in half-seconds, so SUSTAIN_CAP is reached by duration 10)
ProbeNotes ==
    {Note(60, t, d, v) : t \in {0, 2, 4}, d \in {1, 2, 10}, v \in {5, 10}}
ProbeNoteLists ==
    {<<>>} \cup {<<a>> : a \in ProbeNotes}
           \cup {<<a, b>> : a \in {Note(64, 2, 2, 8)}, b \in ProbeNotes}
           \cup {<<a, b>> : a \in ProbeNotes, b \in {Note(64, 2, 2, 8)}}
ProbeOffsets == 0..MaxOffset

InitTriggers ==
    /\ InitQuiet
    /\ \E ns \in ProbeNoteLists, off \in ProbeOffsets :
           probe = [fn |-> "Triggers", ns |-> ns, off |-> off,
                    done |-> FALSE, out |-> <<>>]
\* the notes.forEach of startPlayback (App.tsx 281-293) on probe.ns with
\* playOffset = probe.off
ApplyTriggers ==
    /\ probe.fn = "Triggers" /\ ~probe.done
    /\ probe' = [probe EXCEPT !.done = TRUE,
                              !.out = Triggers(probe.ns, 1, probe.off)]
    /\ UNCHANGED ProgramVars
\* the scheduling loop on its own arguments, next to the component loading
\* a file and playing it
NextTriggers ==
    \/ ApplyTriggers
    \/ \E buf \in Buffers : LoadFile(buf)
    \/ PlayClick
    \/ ToneStartResolves
    \/ StopClick
SpecTriggers == InitTriggers /\ [][NextTriggers]_vars

\* draw(), the notes loop (App.tsx 409-418), for one note n at zoom z and
\* scroll (sx, sy) on a canvas of logical size W x H; lengths in tenths of a
\* pixel, so a time of t half-seconds is t * 120 * z / 2 tenths wide
TimeToPx(t, z) == (t * PIXELS_PER_SEC_BASE * z) \div 2
KeyW == 10 * PIANO_KEY_WIDTH
\* an x transform that scales the key column with zoom
NoteX_ScaledGutter(n, z, sx) == (KeyW * z) \div 10 + TimeToPx(n.time, z) - sx
NoteX(n, z, sx) == KeyW + TimeToPx(n.time, z) - sx
NoteW(n, z) == TimeToPx(n.duration, z)
NoteY(n, z, sy) == (MAX_PITCH - n.pitch) * NoteHeight(z) - sy
\* a culling test that also drops the notes touching the viewport's edge
Culled_Strict(n, z, sx, sy, W, H) ==
    \/ NoteX(n, z, sx) + NoteW(n, z) <= KeyW
    \/ NoteX(n, z, sx) >= W
    \/ NoteY(n, z, sy) + NoteHeight(z) <= 0
    \/ NoteY(n, z, sy) >= H
\* if (x + w < keyW || x > W || y + nh < 0 || y > H) continue
Culled(n, z, sx, sy, W, H) ==
    \/ NoteX(n, z, sx) + NoteW(n, z) < KeyW
    \/ NoteX(n, z, sx) > W
    \/ NoteY(n, z, sy) + NoteHeight(z) < 0
    \/ NoteY(n, z, sy) > H

\* notes, zoom levels, scroll positions and canvas sizes (at least as wide as
\* the key column) that put a note strictly outside, strictly inside and
\* exactly on each edge of the viewport
CullNotes ==
    {Note(p, t, d, 5) : p \in {21, 60, 108}, t \in {0, 1, 2}, d \in {0, 1, 2}}
CullZooms == {ZOOM_MIN, ZOOM_INIT, ZOOM_MAX}
CullScrollXs == {0, 590, 600, 610, 1200}
CullScrollYs == {0, 130, 140, 150, 560}
CullWidths == {KeyW, 1160, 30000}
CullHeights == {6160, 61200}

InitCull ==
    /\ InitQuiet
    /\ \E n \in CullNotes, z \in CullZooms, sx \in CullScrollXs,
          sy \in CullScrollYs, W \in CullWidths, H \in CullHeights :
           probe = [fn |-> "Culled", n |-> n, z |-> z, sx |-> sx, sy |-> sy,
                    W |-> W, H |-> H, done |-> FALSE, out |-> FALSE]
\* one pass of the notes loop: out tells whether the note is drawn
ApplyCull ==
    /\ probe.fn = "Culled" /\ ~probe.done
    /\ probe' = [probe EXCEPT
                   !.done = TRUE,
                   !.out = ~Culled(probe.n, probe.z, probe.sx, probe.sy,
                                   probe.W, probe.H)]
    /\ UNCHANGED ProgramVars
SpecCull == InitCull /\ [][ApplyCull]_vars

\* two notes that differ in pitch, drawn at one zoom and scroll position
XYPitches == {MIN_PITCH, 60, 64, MAX_PITCH}
XYTimes == {0, 1, 2}
InitXY ==
    /\ InitQuiet
    /\ \E p1 \in XYPitches, p2 \in XYPitches, t \in XYTimes, z \in CullZooms,
          sx \in {0, 600}, sy \in {0, 560} :
           probe = [fn |-> "NoteXY", a |-> Note(p1, t, 2, 5),
                    b |-> Note(p2, t, 2, 5), z |-> z, sx |-> sx, sy |-> sy,
                    done |-> FALSE, xa |-> 0, ya |-> 0, yb |-> 0]
\* const x = ..., const y = ... of the notes loop (App.tsx 410-412)
ApplyXY ==
    /\ probe.fn = "NoteXY" /\ ~probe.done
    /\ probe' = [probe EXCEPT
                   !.done = TRUE,
                   !.xa = NoteX(probe.a, probe.z, probe.sx),
                   !.ya = NoteY(probe.a, probe.z, probe.sy),
                   !.yb = NoteY(probe.b, probe.z, probe.sy)]
    /\ UNCHANGED ProgramVars
SpecXY == InitXY /\ [][ApplyXY]_vars

\* a colour ramp that runs from red to blue
VelocityHue_Inverted(v) == v * 24
\* velocityColor (App.tsx 89-94): hue = (1 - velocity) * 240 in degrees, for
\* a velocity in tenths
VelocityHue(v) == (10 - v) * 24

Velocities == 0..10
InitHue ==
    /\ InitQuiet
    /\ \E a \in Velocities, b \in Velocities :
           probe = [fn |-> "velocityColor", a |-> a, b |-> b,
                    done |-> FALSE, ha |-> 0, hb |-> 0]
\* velocityColor applied to two velocities
ApplyHue ==
    /\ probe.fn = "velocityColor" /\ ~probe.done
    /\ probe' = [probe EXCEPT !.done = TRUE,
                              !.ha = VelocityHue(probe.a),
                              !.hb = VelocityHue(probe.b)]
    /\ UNCHANGED ProgramVars
SpecHue == InitHue /\ [][ApplyHue]_vars

\* const clampX = Math.max(x, keyW) (App.tsx 419)
ClampX(n, z, sx) == Max(NoteX(n, z, sx), KeyW)
\* const clampW = Math.min(x + w, W) - clampX (App.tsx 420)
ClampW(n, z, sx, W) == Min(NoteX(n, z, sx) + NoteW(n, z), W) - ClampX(n, z, sx)

\* canvas widths below, at and above the width of the key column
ClampWidths == {400, KeyW, 1160, 30000}
InitClamp ==
    /\ InitQuiet
    /\ \E n \in CullNotes, z \in CullZooms, sx \in CullScrollXs,
          sy \in CullScrollYs, W \in ClampWidths, H \in CullHeights :
           probe = [fn |-> "roundRect", n |-> n, z |-> z, sx |-> sx, sy |-> sy,
                    W |-> W, H |-> H, done |-> FALSE, drawn |-> FALSE,
                    x |-> 0, w |-> 0]
\* one pass of the notes loop: drawn tells whether roundRect is called, x and
\* w are the left edge and the width it is called with
ApplyClamp ==
    /\ probe.fn = "roundRect" /\ ~probe.done
    /\ probe' = [probe EXCEPT
                   !.done = TRUE,
                   !.drawn = ~Culled(probe.n, probe.z, probe.sx, probe.sy,
                                     probe.W, probe.H),
                   !.x = ClampX(probe.n, probe.z, probe.sx),
                   !.w = ClampW(probe.n, probe.z, probe.sx, probe.W)]
    /\ UNCHANGED ProgramVars
SpecClamp == InitClamp /\ [][ApplyClamp]_vars

----------------------------------------------------------------------------
(* The access gate: useTelegram (hooks/useTelegram.ts 23-79) and App      *)
(* (App.tsx 4-65).  The hook's state lives in probe: the environment it    *)
(* reads (tg, id, dev, midi, start) and the state it sets.                 *)

ADMIN_IDS == {371331803}

\* window.Telegram?.WebApp is absent, present without a user, or present
\* with a user; the ids a user may have; the values of ?dev= ("" when the
\* parameter is absent), of ?midi= and of start_param
TgContexts == {"absent", "nouser", "user"}
TgUserIds == {371331803, 371331804, 1}
DevParams == {"", "1", "0", "true"}
UrlMidis == {"", "test"}
StartParams == {"", "midi_7", "7"}

\* a check that takes every Telegram user for an administrator
IncludesAdmin_Any(id) == TRUE
\* ADMIN_IDS.includes(tgUser.id)
IncludesAdmin(id) == id \in ADMIN_IDS

\* startParam.startsWith('midi_') ? startParam.slice(5) : startParam
MidiIdOf(start) == IF start = "midi_7" THEN "7" ELSE start

\* the hook after its first render: useState defaults (useTelegram.ts 24-31)
InitGate ==
    /\ InitQuiet
    /\ \E tg \in TgContexts, id \in TgUserIds, dev \in DevParams,
          urlMidi \in UrlMidis, start \in StartParams :
           probe = [fn |-> "useTelegram", tg |-> tg, id |-> id, dev |-> dev,
                    midi |-> urlMidi, start |-> start,
                    isAdmin |-> FALSE, isLoading |-> TRUE, isDev |-> FALSE,
                    userId |-> 0, midiParam |-> ""]
\* the mount effect (useTelegram.ts 33-76)
UseTelegramEffect ==
    /\ probe.fn = "useTelegram" /\ probe.isLoading
    /\ probe' =
          IF probe.tg = "user"
          THEN [probe EXCEPT
                  !.userId = probe.id,
                  !.isAdmin = IncludesAdmin(probe.id),
                  !.midiParam = IF probe.start # "" THEN MidiIdOf(probe.start)
                                ELSE probe.midi,
                  !.isLoading = FALSE]
          ELSE IF probe.dev = "1"
          THEN [probe EXCEPT
                  !.isDev = TRUE,
                  !.isAdmin = TRUE,
                  !.midiParam = probe.midi,
                  !.isLoading = FALSE]
          ELSE [probe EXCEPT !.isLoading = FALSE]
    /\ UNCHANGED ProgramVars
SpecGate == InitGate /\ [][UseTelegramEffect]_vars

\* what App renders (App.tsx 7-42)
Screen ==
    IF probe.isLoading THEN "loading"
    ELSE IF ~probe.isAdmin THEN "restricted"
    ELSE "pianoroll"

----------------------------------------------------------------------------
(* The API client (api/client.ts).  A request builds its headers, the      *)
(* response is handled; both steps are recorded in probe.                  *)

\* JSON values an error field may hold, and String(v) of each
JsonValues ==
    {[t |-> "string", s |-> "boom", n |-> 0],
     [t |-> "string", s |-> "", n |-> 0],
     [t |-> "null", s |-> "", n |-> 0],
     [t |-> "number", s |-> "", n |-> 5]}
StringOf(v) ==
    CASE v.t = "string" -> v.s
      [] v.t = "null"   -> "null"
      [] OTHER          -> ToString(v.n)

\* response bodies: a JSON object with or without an error field, a JSON
\* array, the JSON value null, and text that is not JSON
Bodies ==
    {[kind |-> "object", hasError |-> TRUE, error |-> v] : v \in JsonValues}
    \cup {[kind |-> k, hasError |-> FALSE,
            error |-> [t |-> "null", s |-> "", n |-> 0]] :
              k \in {"object", "array", "null", "text"}}
Statuses == {200, 204, 299, 304, 404, 500}
\* tg?.WebApp?.initData ?? null: "null" stands for null, "" is the empty
\* string Telegram reports outside a mini app
InitDatas == {"null", "", "query_id=1"}
\* the Authorization header of `extra`, "none" when it has none
SuppliedAuths == {"none", "Bearer x"}

\* a response.ok that accepts status 200 only
IsOk_Only200(status) == status = 200
\* response.ok
IsOk(status) == status >= 200 /\ status <= 299

\* body && typeof body === 'object' && 'error' in body ? String(body.error)
\* : null, then ?? `HTTP ${response.status}` (client.ts 52-55).  A body that
\* is not JSON makes response.json() throw; the body is then null or text,
\* neither of them an object.
ErrorMessage(body, status) ==
    IF body.kind = "object" /\ body.hasError
    THEN StringOf(body.error)
    ELSE "HTTP " \o ToString(status)

InitClient ==
    /\ InitQuiet
    /\ \E st \in Statuses, b \in Bodies, d \in InitDatas,
          a \in SuppliedAuths :
           probe = [fn |-> "client", status |-> st, body |-> b,
                    initData |-> d, extra |-> a, step |-> "new",
                    authorization |-> "none", thrown |-> "none",
                    message |-> "", errStatus |-> 0]
\* buildHeaders(extra) (client.ts 34-41)
BuildHeaders ==
    /\ probe.fn = "client" /\ probe.step = "new"
    /\ probe' = [probe EXCEPT
                   !.step = "sent",
                   !.authorization =
                       IF probe.initData # "null" /\ probe.initData # ""
                          /\ probe.extra = "none"
                       THEN "tma " \o probe.initData
                       ELSE probe.extra]
    /\ UNCHANGED ProgramVars
\* handleResponse(response) (client.ts 44-59)
HandleResponse ==
    /\ probe.fn = "client" /\ probe.step = "sent"
    /\ probe' =
          IF ~IsOk(probe.status)
          THEN [probe EXCEPT
                  !.step = "done",
                  !.thrown = "ApiError",
                  !.message = ErrorMessage(probe.body, probe.status),
                  !.errStatus = probe.status]
          ELSE [probe EXCEPT
                  !.step = "done",
                  !.thrown = IF probe.body.kind = "text" THEN "SyntaxError"
                             ELSE "none"]
    /\ UNCHANGED ProgramVars
SpecClient == InitClient /\ [][BuildHeaders \/ HandleResponse]_vars

----------------------------------------------------------------------------
(* Claims *)

\* C1: in every reachable state zoom lies in [0.3, 5.0], whatever sequence
\* of ctrl/meta-wheel events, pinch moves and toolbar zoom clicks led there.
C1_ZoomInRange == ZOOM_MIN <= zoom /\ zoom <= ZOOM_MAX
\* two fingers are down and pinching out has driven zoom to the upper bound
C1_Witness == zoom = ZOOM_MAX /\ Len(touches) = 2

\* C2: after every view-state operation, zoom changes included,
\* 0 <= scrollY <= maxScrollY for the current zoom and logical height.
C2_ScrollYInRange == 0 <= scrollY /\ scrollY <= MaxSy(zoom)

\* C3: in every reachable state scrollX >= 0, after any sequence of wheel
\* scrolls, one-finger pans and document loads.
C3_ScrollXNonNegative == scrollX >= 0
\* a document is loaded, one finger is down at the left edge and the view is
\* scrolled to the right
C3_Witness ==
    /\ midi # "null"
    /\ Len(touches) = 1 /\ lastTouchX = 0
    /\ scrollX = MaxScrollX

\* the steps in which stopPlayback runs: the Stop button and a load that
\* parsed (App.tsx 179)
C4_StopStep ==
    \/ StopClick
    \/ \E buf \in GoodBuffers : LoadFile(buf)
    \/ \E i \in 1..MaxInFlight, buf \in GoodBuffers : RequestResolves(i, "ok", buf)
C4_Stopped ==
    /\ ~isPlaying /\ ~transportOn
    /\ timeline = <<>> /\ scheduledRef = <<>>
    /\ playOffset = 0
\* C4: stopPlayback leaves the scheduler Stopped with no pending trigger and
\* seek offset 0, so that no trigger that was pending can fire afterwards;
\* run when already Stopped it changes nothing of the playback state.
C4_StopCancels ==
    [][C4_StopStep =>
          /\ ~isPlaying' /\ ~transportOn'
          /\ timeline' = <<>> /\ scheduledRef' = <<>>
          /\ playOffset' = 0
          /\ (C4_Stopped => UNCHANGED playVars)]_vars
\* a.mid was played at clock 0, where its second trigger is still pending,
\* and playback is stopped again with nothing left on the timeline
C4_Witness ==
    /\ midi = "a.mid" /\ synthRef /\ playFails = {}
    /\ clock = 0 /\ playStartTime = 0
    /\ C4_Stopped

\* C5: once the request that was issued last has ended, and until a newer
\* load starts, the document is the one it delivered and the error shown is
\* the one shown when it ended: the response of an earlier request that
\* arrives after it changes neither (last-requested-wins).
C5_LastRequestedWins ==
    latestRes.kind # "none" =>
        /\ latestRes.kind = "api_ok" => midi = latestRes.name
        /\ autoLoadError = latestRes.err

\* the number of triggers pending for pitch p
C6_Pending(p) == Cardinality({i \in 1..Len(timeline) : timeline[i].pitch = p})
\* C6: while playback is Playing and no play setup has failed, every note
\* of the document has at most one pending trigger, however the play
\* requests were interleaved.
C6_AtMostOneTrigger ==
    (isPlaying /\ "throw" \notin playFails) =>
        \A i \in 1..Len(notes) : C6_Pending(notes[i].pitch) <= 1

\* C7: a startPlayback whose Tone.start() is rejected changes nothing of the
\* playback state (playing flag, triggers, play start time, seek offset,
\* transport, synth), of the document or of the view, and while playback is
\* Stopped after it the Play button starts a new attempt.
C7_RejectLeavesState ==
    /\ [][ToneStartRejects =>
             UNCHANGED <<isPlaying, playStartTime, playOffset, timeline,
                         scheduledRef, synthRef, transportOn, transportT0,
                         clock, audioOn, docVars, viewVars>>]_vars
    /\ []((/\ "reject" \in playFails /\ ~isPlaying
           /\ Len(notes) > 0 /\ suspended = <<>>) => ENABLED PlayClick)
\* a.mid is loaded, the only play attempt so far was rejected, playback is
\* Stopped with nothing scheduled and Play can be clicked again
C7_Witness ==
    /\ midi = "a.mid" /\ playFails = {"reject"} /\ ~synthRef
    /\ suspended = <<>>
    /\ ~isPlaying /\ timeline = <<>> /\ scheduledRef = <<>>
    /\ playStartTime = 0 /\ playOffset = 0
    /\ ENABLED PlayClick

\* C8: playback that is not Playing has no pending trigger (a failed setup
\* has been rolled back), and playback that is Playing has a schedule.
C8_SetupRolledBack ==
    /\ ~isPlaying => timeline = <<>>
    /\ isPlaying => scheduledRef # <<>>

\* the steps in which a load fails: a local file that does not parse, and a
\* request that ends with 404, another non-OK status, no data, a network
\* error or bytes that do not parse
C9_FailedLoadStep ==
    \/ LoadFile("bad")
    \/ \E i \in 1..MaxInFlight, out \in Outcomes \ {"ok"}, buf \in Buffers :
           RequestResolves(i, out, buf)
    \/ \E i \in 1..MaxInFlight : RequestResolves(i, "ok", "bad")
\* C9: a failed load changes neither the loaded document (midi, notes,
\* duration, file name) nor the view (zoom, scrollX, scrollY).
C9_FailedLoadKeepsDocument ==
    [][C9_FailedLoadStep =>
          UNCHANGED <<midi, notes, duration, fileName, zoom, scrollX,
                      scrollY>>]_vars
\* the load that ended last failed, with a.mid loaded before it and the
\* view zoomed and scrolled away from where a load puts it
C9_Witness ==
    /\ lastLoad \in {"file_parse", "api_parse", "http", "nodata", "net"}
    /\ midi = "a.mid" /\ Len(notes) = 2
    /\ zoom # ZOOM_INIT /\ scrollX > 0

\* C10: when the load that ended last failed (parse failures included) and
\* no newer load has started, the load state holds a reason for display.
C10_FailureSurfaced ==
    lastLoad \in {"file_parse", "api_parse", "http", "nodata", "net"} =>
        autoLoadError # "null"

\* the overlays of the render: the error banner (App.tsx 710) and the
\* empty state (App.tsx 748), with no file being dragged
ErrorBannerShown == autoLoadError # "null" /\ Len(notes) = 0 /\ ~isAutoLoading
EmptyStateShown == Len(notes) = 0 /\ ~isAutoLoading /\ autoLoadError = "null"

\* C11: a request answered with 404 ends with the loading flag cleared and
\* sets no error reason and changes no document or view state; with no
\* document and no earlier error the render then shows the empty state and
\* not the error banner.
C11_NotFoundIsNoError ==
    [][(\E i \in 1..MaxInFlight, buf \in Buffers : RequestResolves(i, "404", buf))
          => /\ isAutoLoading' = FALSE
             /\ UNCHANGED <<autoLoadError, docVars, viewVars>>
             /\ (autoLoadError = "null" /\ Len(notes) = 0)
                    => (EmptyStateShown' /\ ~ErrorBannerShown')]_vars
\* the only request issued was answered with 404 and nothing is loaded
C11_Witness ==
    /\ lastLoad = "404" /\ issued = 1 /\ inflight = <<>>
    /\ midi = "null" /\ EmptyStateShown

\* what the claim asks of the triggers for note list ns at seek offset off:
\* the notes that end at or after off, in order, each with its own trigger
C12_Kept(ns, off) ==
    {i \in 1..Len(ns) : ns[i].time + ns[i].duration >= off}
C12_Nth(ns, off, k) ==
    CHOOSE i \in C12_Kept(ns, off) :
        Cardinality({j \in C12_Kept(ns, off) : j <= i}) = k
C12_Expected(ns, off, pos) ==
    [k \in 1..Cardinality(C12_Kept(ns, off)) |->
        LET n == ns[C12_Nth(ns, off, k)]
        IN  [pitch |-> n.pitch,
             at    |-> pos + (IF n.time > off THEN n.time - off ELSE 0),
             len   |-> IF n.duration < SUSTAIN_CAP THEN n.duration
                       ELSE SUSTAIN_CAP,
             amp   |-> 8 * n.velocity]]
\* C12: the scheduling loop of startPlayback makes exactly one trigger for
\* every note with time + duration >= seek offset and none for any other
\* note, each at delay max(0, time - offset), with sustain min(duration, 4 s)
\* and amplitude 0.8 * velocity; a startPlayback that resumes while playback
\* is Stopped with nothing pending schedules exactly these triggers for its
\* notes and makes the state Playing.
C12_TriggersExact ==
    /\ []((probe.fn = "Triggers" /\ probe.done) =>
              probe.out = C12_Expected(probe.ns, probe.off, 0))
    /\ [][(ToneStartResolves /\ ~isPlaying /\ timeline = <<>>) =>
              /\ isPlaying' /\ transportOn'
              /\ timeline' = C12_Expected(Head(suspended).notes,
                                          Head(suspended).offset, 0)
              /\ scheduledRef' = timeline']_vars
\* a two-note list whose first note ends exactly at the offset and is kept,
\* and whose second note is longer than the sustain cap
C12_Witness ==
    /\ probe.fn = "Triggers" /\ probe.done
    /\ probe.ns = <<Note(64, 2, 2, 8), Note(60, 4, 10, 10)>>
    /\ probe.off = 4
    /\ Len(probe.out) = 2
    /\ midi = "a.mid" /\ isPlaying /\ Len(timeline) = 2

\* C13: startPlayback called with an empty note list changes nothing: the
\* playback state stays as it is (Stopped, nothing scheduled), no call is
\* left waiting for Tone.start(), and the audio context is not started.
C13_EmptyPlayIsNoOp ==
    [][(StartPlaybackCall /\ Len(notes) = 0) =>
          UNCHANGED <<playVars, docVars, viewVars, loadVars>>]_vars
\* startPlayback has been called with the empty document e.mid loaded, and
\* playback is Stopped with nothing scheduled and no call suspended
C13_Witness ==
    /\ "empty" \in playFails /\ midi = "e.mid" /\ Len(notes) = 0
    /\ ~isPlaying /\ timeline = <<>> /\ scheduledRef = <<>>
    /\ suspended = <<>>

\* C14: startPlayback sets t0 = playStartTime to the audio clock at play
\* start minus the seek offset; every frame drawn while Playing takes
\* elapsed as the audio clock minus t0; so between two frames of one
\* playback elapsed grows by exactly what the audio clock advanced, however
\* many frames were drawn meanwhile.
C14_ElapsedFollowsClock ==
    /\ [][ToneStartResolves =>
             playStartTime' = clock - Head(suspended).offset]_vars
    /\ [](probe.fn = "elapsed" => probe.out = probe.now - probe.t0)
    /\ [][(DrawPlayhead /\ probe.fn = "elapsed" /\ probe.t0 = playStartTime)
             => probe'.out - probe.out = clock - probe.now]_vars
\* playback started at clock 1 and a frame drawn two clock steps later
\* shows elapsed 2
C14_Witness ==
    /\ isPlaying /\ playStartTime = 1
    /\ probe.fn = "elapsed" /\ probe.now = 3 /\ probe.out = 2

\* the k-th smallest pitch of ns, and twice the median pitch
C15_KthPitch(ns, k) ==
    CHOOSE p \in {ns[i].pitch : i \in 1..Len(ns)} :
        /\ Cardinality({i \in 1..Len(ns) : ns[i].pitch < p}) < k
        /\ Cardinality({i \in 1..Len(ns) : ns[i].pitch <= p}) >= k
C15_Median2(ns) ==
    C15_KthPitch(ns, (Len(ns) + 1) \div 2) + C15_KthPitch(ns, Len(ns) \div 2 + 1)
\* the row of pitch p2 / 2 lies on the horizontal centre line of the viewport
C15_Centered(p2, z, sy) ==
    LET top == ((2 * MAX_PITCH - p2) * NoteHeight(z)) \div 2 - sy
    IN  top <= LogicalHeight \div 2 /\ LogicalHeight \div 2 <= top + NoteHeight(z)
\* C15: a load of a document with notes leaves scrollY at 0 or with the row
\* of the median pitch on the centre line of the viewport (stated at device
\* pixel ratio 1, where canvas.height is the logical height).
C15_CentersOnMedian ==
    [][((\E buf \in GoodBuffers : LoadFile(buf)) /\ Len(notes') > 0 /\ dpr = 1)
          => (scrollY' = 0 \/ C15_Centered(C15_Median2(notes'), zoom', scrollY'))]_vars

\* C16: every note of the loaded document has duration > 0.
C16_DurationsPositive ==
    \A i \in 1..Len(notes) : notes[i].duration > 0

\* the closed intervals [a1, a2] and [b1, b2] have a point in common
C17_Overlap(a1, a2, b1, b2) == Max(a1, b1) <= Min(a2, b2)
\* C17: a note is drawn if and only if its box [x, x + w] x [y, y + nh]
\* meets the clipped viewport [GUTTER, W] x [0, H], for notes outside,
\* inside and on the edges (canvas at least as wide as the gutter).
C17_CullingExact ==
    (probe.fn = "Culled" /\ probe.done) =>
        LET x == KeyW + (probe.n.time * 60 * probe.z) - probe.sx
            w == probe.n.duration * 60 * probe.z
            y == (MAX_PITCH - probe.n.pitch) * 14 * probe.z - probe.sy
        IN  probe.out <=> (/\ C17_Overlap(x, x + w, KeyW, probe.W)
                           /\ C17_Overlap(y, y + 14 * probe.z, 0, probe.H))
\* a note whose right edge lies exactly on the gutter's edge is drawn
C17_Witness ==
    /\ probe.fn = "Culled" /\ probe.done /\ probe.out
    /\ probe.n = Note(60, 0, 1, 5) /\ probe.z = 10 /\ probe.sx = 600
    /\ probe.sy = 560 /\ probe.W = 1160 /\ probe.H = 6160

\* C18: y = (MAX_PITCH - pitch) * 14 * zoom - scrollY, so the lower of two
\* pitches is drawn strictly lower; x = 56 + time * 120 * zoom - scrollX
\* with the 56 not scaled by zoom; at zoom 1 and scroll (0, 0) a note
\* starting at 0.5 s begins at 116 px.
C18_Transform ==
    (probe.fn = "NoteXY" /\ probe.done) =>
        /\ probe.ya = (108 - probe.a.pitch) * 14 * probe.z - probe.sy
        /\ probe.a.pitch < probe.b.pitch => probe.ya > probe.yb
        /\ probe.xa = 560 + probe.a.time * 60 * probe.z - probe.sx
        /\ (probe.a.time = 0 /\ probe.sx = 0) => probe.xa = 560
        /\ (probe.a.time = 1 /\ probe.z = 10 /\ probe.sx = 0) => probe.xa = 1160
\* pitches 60 and 64 at 0.5 s, zoom 1, scroll (0, 0): 60 is drawn below 64
\* and the note begins at 116 px
C18_Witness ==
    /\ probe.fn = "NoteXY" /\ probe.done
    /\ probe.a.pitch = 60 /\ probe.b.pitch = 64 /\ probe.a.time = 1
    /\ probe.z = 10 /\ probe.sx = 0 /\ probe.sy = 0
    /\ probe.xa = 1160 /\ probe.ya = 6720 /\ probe.yb = 6160

\* C19: the hue depends on the velocity alone; velocity 0 has hue 240,
\* velocity 1 has hue 0, and of two velocities the smaller has the strictly
\* larger hue.
C19_HueMonotone ==
    (probe.fn = "velocityColor" /\ probe.done) =>
        /\ probe.a = 0 => probe.ha = 240
        /\ probe.a = 10 => probe.ha = 0
        /\ probe.a = probe.b => probe.ha = probe.hb
        /\ probe.a < probe.b => probe.ha > probe.hb
\* velocities 0 and 1 give hues 240 and 0
C19_Witness ==
    /\ probe.fn = "velocityColor" /\ probe.done
    /\ probe.a = 0 /\ probe.b = 10 /\ probe.ha = 240 /\ probe.hb = 0

\* C20: a two-finger move multiplies zoom by the ratio of the fingers'
\* distance after the move to their distance before it, clamped to
\* [0.3, 5.0] (halving the distance halves zoom down to the 0.3 floor).
C20_PinchScales ==
    [][(\E i \in 1..2, p \in TouchPts : TouchPinch(i, p)) =>
          zoom' = ClampZoom(ScaleZoom(zoom,
                                      GetTouchDistance(touches'[1], touches'[2]),
                                      GetTouchDistance(touches[1], touches[2])))]_vars

\* C21: the loading flag is set exactly while a request is in flight, and
\* it is never set together with a retained error reason.
C21_OneLoadState ==
    /\ isAutoLoading <=> inflight # <<>>
    /\ ~(isAutoLoading /\ autoLoadError # "null")

\* C22: the auto-centring of a load measures the viewport in logical
\* pixels, canvas.height / dpr, like draw and the scroll clamps: a load of a
\* document with notes puts the middle of its pitch range half a logical
\* viewport below the top (or leaves scrollY at 0).
C22_LogicalSizes ==
    [][((\E buf \in GoodBuffers : LoadFile(buf)) /\ Len(notes') > 0) =>
          scrollY' = Max(0, ((2 * MAX_PITCH
                               - (SeqMinPitch(notes', 1, 127)
                                  + SeqMaxPitch(notes', 1, 0)))
                             * NoteHeight(zoom)) \div 2
                            - LogicalHeight \div 2)]_vars

\* C23: at most one animation-frame request is pending, however many
\* renders with a new draw (view, load or playback changes) came since the
\* last frame.
C23_FramesCoalesced == Cardinality(rafPending) <= 1
\* a file was loaded and the view zoomed and scrolled, two or more renders
\* have come since the last frame, and one request is pending
C23_Witness ==
    /\ dirty = 2 /\ Cardinality(rafPending) = 1
    /\ midi # "null" /\ zoom # ZOOM_INIT /\ scrollX > 0

\* C24: while playback is Playing a frame request is always pending (every
\* frame requests the next); stopping leaves exactly one request, made for
\* a draw that is not playing, and a frame that runs while playback is
\* Stopped leaves no request pending.
C24_FramesFollowPlayback ==
    /\ [](isPlaying => rafPending # {})
    /\ [][StopClick => /\ Cardinality(rafPending') = 1
                       /\ \A r \in rafPending' : ~r.playing]_vars
    /\ [][(DrawFrame /\ ~isPlaying) => rafPending' = {}]_vars
\* a.mid was played and stopped, the frame after the stop has run and the
\* render loop is idle
C24_Witness ==
    /\ midi = "a.mid" /\ synthRef /\ ~isPlaying /\ suspended = <<>>
    /\ rafPending = {} /\ dirty = 0

\* C25: a wheel event without ctrl or meta adds deltaX to scrollX and deltaY
\* to scrollY, or with shift deltaY to scrollX and deltaX to scrollY; both
\* results are clamped and zoom is unchanged.
C25_WheelScrolls ==
    [][\A dx \in WheelDeltas, dy \in WheelDeltas, sh \in BOOLEAN :
          WheelScroll(dx, dy, sh) =>
              /\ scrollX' = Max(0, scrollX + (IF sh THEN dy ELSE dx))
              /\ scrollY' = Max(0, Min(MaxSy(zoom),
                                       scrollY + (IF sh THEN dx ELSE dy)))
              /\ zoom' = zoom]_vars

\* C26: a one-finger move to (cx, cy) with stored sample (lastTouchX,
\* lastTouchY) sets scrollX to max(0, scrollX - (cx - lastTouchX)) and scrollY
\* to scrollY - (cy - lastTouchY) clamped to [0, maxSy], and stores (cx, cy)
\* as the new sample; the clamp is applied by every move.
C26_PanStep ==
    [][\A p \in TouchPts :
          TouchPan(p) =>
              /\ scrollX' = Max(0, scrollX - (p[1] - lastTouchX))
              /\ scrollY' = Max(0, Min(MaxSy(zoom),
                                       scrollY - (p[2] - lastTouchY)))
              /\ lastTouchX' = p[1] /\ lastTouchY' = p[2]]_vars
\* nothing is loaded, so scrollX is positive only through a pan: the finger
\* now rests at the origin after a move to the left and up by 616 px
C26_Witness ==
    /\ midi = "null" /\ touches = << <<0, 0>> >>
    /\ lastTouchX = 0 /\ lastTouchY = 0
    /\ scrollX = 6160 /\ scrollY > 0

\* C27: a touch-move received while two touch points are active leaves
\* scrollX and scrollY unchanged; of the view it changes only zoom, and the
\* document and the playback state are untouched.
C27_PinchDoesNotPan ==
    [][(\E i \in 1..2, p \in TouchPts : TouchPinch(i, p)) =>
          /\ scrollX' = scrollX /\ scrollY' = scrollY
          /\ UNCHANGED <<docVars, playVars>>]_vars
\* two fingers are down after a pinch that doubled the zoom, and the scroll
\* position reached before the pinch is still there
C27_Witness ==
    /\ Len(touches) = 2 /\ zoom = 2 * ZOOM_INIT
    /\ scrollX = 6160 /\ scrollY > 0

\* C28: the pan applied by a one-finger move equals the displacement of the
\* finger that is down since that finger's own previous position, also for
\* the first move after one of two fingers was lifted.
C28_PanFollowsFinger ==
    [][\A p \in TouchPts :
          TouchPan(p) =>
              /\ scrollX' = Max(0, scrollX - (p[1] - touches[1][1]))
              /\ scrollY' = Max(0, Min(MaxSy(zoom),
                                       scrollY - (p[2] - touches[1][2])))]_vars

\* C29: a zoom operation (ctrl/meta wheel, pinch move, toolbar button) leaves
\* the document, scrollX, the playback state with its pending triggers and
\* the load state unchanged and issues no remote load request.
C29_ZoomOp ==
    \/ \E dy \in WheelDeltas \ {0} : WheelZoom(dy)
    \/ \E i \in 1..2, p \in TouchPts : TouchPinch(i, p)
    \/ ZoomInClick
    \/ ZoomOutClick
C29_ZoomChangesOnlyZoom ==
    [][C29_ZoomOp => UNCHANGED <<docVars, scrollX, playVars, loadVars,
                                 issued>>]_vars

\* C30: whenever playback is Playing, every pending trigger was scheduled
\* from a note of the currently loaded document.
C30_FromLoaded(t) ==
    \E j \in 1..Len(notes) :
        /\ t.pitch = notes[j].pitch
        /\ t.len = Min(notes[j].duration, SUSTAIN_CAP)
        /\ t.amp = notes[j].velocity * 8
C30_TriggersOfLoadedDocument ==
    isPlaying => \A i \in 1..Len(timeline) : C30_FromLoaded(timeline[i])

\* C31: a successful load of a document with notes leaves scrollY within
\* [0, maxSy] for the current zoom and logical viewport height, whatever the
\* pitches of the notes.
C31_LoadScrollYInRange ==
    [][((\E buf \in GoodBuffers : LoadFile(buf)) /\ Len(notes') > 0)
          => (0 <= scrollY' /\ scrollY' <= MaxSy(zoom'))]_vars

\* C32: every note that passes culling is drawn with its left edge at or
\* right of the key column, its right edge at or left of W and a width >= 0,
\* for every canvas width W.
C32_RectInsideClip ==
    (probe.fn = "roundRect" /\ probe.done /\ probe.drawn)
        => /\ probe.x >= KeyW
           /\ probe.x + probe.w <= probe.W
           /\ probe.w >= 0

\* C33: playOffset is 0 in every reachable state, also in every suspended
\* call, so a startPlayback that runs to its end schedules every note it
\* captured at a delay equal to the note's start time and sets playStartTime
\* to the audio clock.
C33_OffsetZero ==
    /\ playOffset = 0
    /\ \A i \in 1..Len(suspended) : suspended[i].offset = 0
C33_SeekOffsetIsZero ==
    /\ []C33_OffsetZero
    /\ [][ToneStartResolves =>
             LET ns == Head(suspended).notes
             IN  /\ Len(scheduledRef') = Len(ns)
                 /\ \A i \in 1..Len(ns) :
                        /\ scheduledRef'[i].pitch = ns[i].pitch
                        /\ scheduledRef'[i].at = TransportPos + ns[i].time
                 /\ playStartTime' = clock]_vars
\* a.mid is playing, started when the audio clock had already advanced
C33_Witness ==
    /\ midi = "a.mid" /\ isPlaying /\ Len(scheduledRef) = 2
    /\ scheduledRef[2].at > scheduledRef[1].at
    /\ playStartTime > 0

\* C34: playback leaves Playing only in a step of stopPlayback (the stop
\* button or a successful load); once the last trigger has fired it stays
\* Playing and the elapsed time keeps growing with the audio clock.
C34_StopStep ==
    \/ StopClick
    \/ \E buf \in GoodBuffers : LoadFile(buf)
    \/ \E i \in 1..MaxInFlight, buf \in GoodBuffers :
           RequestResolves(i, "ok", buf)
C34_PlayingUntilStopped ==
    /\ [][(isPlaying /\ ~isPlaying') => C34_StopStep]_vars
    /\ [][(Tick /\ isPlaying) =>
             /\ isPlaying'
             /\ ElapsedAt(clock', playStartTime')
                    > ElapsedAt(clock, playStartTime)]_vars
\* both triggers of a.mid have fired, the clock has run past them and
\* playback is still Playing
C34_Witness ==
    /\ midi = "a.mid" /\ isPlaying /\ suspended = <<>>
    /\ Len(scheduledRef) = 2 /\ timeline = <<>>
    /\ ElapsedAt(clock, playStartTime) >= 2

\* C35: a remote load that ends, with whatever outcome (success, 404, non-OK
\* response, missing data, network error, parse failure), clears the
\* loading flag, and when every fetch resolves or rejects a raised loading
\* flag is eventually cleared.
C35_LoadingCleared ==
    /\ [][\A i \in 1..MaxInFlight, out \in Outcomes, buf \in Buffers :
             RequestResolves(i, out, buf) => ~isAutoLoading']_vars
    /\ (isAutoLoading ~> ~isAutoLoading)
\* the only request ended with a 404 and the loading flag is down
C35_Witness ==
    /\ autoLoad /\ issued = 1 /\ inflight = <<>>
    /\ lastLoad = "404" /\ ~isAutoLoading

\* C36: during a two-finger gesture in which no value reaches the 0.3 or
\* 5.0 bound, zoom equals z0 * d / d0 for the zoom z0 and distance d0 at the
\* start of the gesture and the current distance d, whatever the samples in
\* between; so a return to distance d0 restores z0.
C36_PinchTelescopes ==
    (probe.fn = "pinch" /\ Len(touches) = 2)
        => zoom = ClampZoom(ScaleZoom(probe.z0,
                                      GetTouchDistance(touches[1], touches[2]),
                                      probe.d0))

\* C37: the piano roll is rendered only when isAdmin is true; isAdmin is
\* true only for a Telegram user whose id is in ADMIN_IDS, or with no
\* Telegram user and dev=1 in the URL; in every other case the
\* access-restricted screen is shown once loading has finished.
C37_Entitled ==
    \/ probe.tg = "user" /\ probe.id \in ADMIN_IDS
    \/ probe.tg # "user" /\ probe.dev = "1"
C38_ClientContract ==
    /\ (probe.fn = "client" /\ probe.step = "done") =>
          IF probe.status \in 200..299
          THEN probe.thrown # "ApiError"
          ELSE /\ probe.thrown = "ApiError"
               /\ probe.errStatus = probe.status
               /\ probe.message =
                     IF probe.body.kind = "object" /\ probe.body.hasError
                     THEN StringOf(probe.body.error)
                     ELSE "HTTP " \o ToString(probe.status)
    /\ (probe.fn = "client" /\ probe.step # "new") =>
          /\ (probe.authorization = "tma " \o probe.initData)
                <=> (probe.initData \notin {"null", ""} /\ probe.extra = "none")
          /\ (probe.authorization # "tma " \o probe.initData)
                => probe.authorization = probe.extra
\* a 404 whose body is {"error": "boom"}, requested with initData
C38_Witness ==
    /\ probe.fn = "client" /\ probe.step = "done"
    /\ probe.status = 404 /\ probe.thrown = "ApiError"
    /\ probe.message = "boom" /\ probe.errStatus = 404
    /\ probe.authorization = "tma query_id=1"

====
